---- MODULE Spec2Model ----
(***************************************************************************)
(* Model of ncd/modules/net_ipv4_dhcp.c: the NCD module net.ipv4.dhcp.     *)
(* One module instance: func_new (argument check, option scan, start of    *)
(* the DHCP client), dhcp_handler (engine events), func_die/instance_free. *)
(*                                                                         *)
(* trace records, in program order, every call the instance makes to the   *)
(* host backend (error, dead, up, down), every call it makes to the DHCP   *)
(* client (init_ok, init_fail, free) and every entry into one of its       *)
(* callbacks after construction (EV_UP, EV_DOWN, EV_ERROR, DIE).           *)
(***************************************************************************)
EXTENDS Integers, Sequences, FiniteSets, TLC

\* ---------------------------------------------------------------- bounds
MaxOpts == 4
MaxArity == 3
MaxEvents == 4
MaxDns == 2

\* ---------------------------------------------------------------- NCDVal values
Str(s) == [type |-> "string", nonulls |-> TRUE, s |-> s, items |-> <<>>]
StrNul == [type |-> "string", nonulls |-> FALSE, s |-> "nul", items |-> <<>>]
List(xs) == [type |-> "list", nonulls |-> FALSE, s |-> "", items |-> xs]
NCDVal_NewInvalid == [type |-> "invalid", nonulls |-> FALSE, s |-> "", items |-> <<>>]

NCDVal_IsInvalid(v) == v.type = "invalid"
NCDVal_IsList(v) == v.type = "list"
NCDVal_IsStringNoNulls(v) == v.type = "string" /\ v.nonulls
NCDVal_ListCount(v) == Len(v.items)

\* NCDVal_ListRead(args, n, ...) succeeds exactly when the list has n elements
NCDVal_ListRead(a, n) == Len(a) = n

\* ---------------------------------------------------------------- inputs
SeqsUpTo(S, n) == UNION {[1..k -> S] : k \in 0..n}

OptElems == {Str("hostname"), Str("vendorclassid"), Str("auto_clientid"),
             Str("myhost"), StrNul, List(<<>>)}
OptLists == {List(xs) : xs \in SeqsUpTo(OptElems, MaxOpts)}
IfnameVals == {Str("eth0"), StrNul, List(<<>>)}
OptsVals == OptLists \cup {Str("myhost")}

ArgLists ==
    {<<>>}
    \cup {<<n>> : n \in IfnameVals}
    \cup {<<Str("eth0"), o>> : o \in OptsVals}
    \cup {<<n, o>> : n \in IfnameVals, o \in {List(<<>>), Str("myhost")}}
    \cup {<<Str("eth0"), List(<<>>)>> \o [i \in 1..k |-> Str("extra")] : k \in 1..(MaxArity - 2)}

\* what NCDVal_ListGet may do when asked for an element past the end of the
\* list: stop the program, or return whatever lies there
OobOutcomes == {"abort", "string", "nonstring"}
GarbageVal(outcome) == IF outcome = "string" THEN Str("garbage") ELSE NCDVal_NewInvalid

\* ---------------------------------------------------------------- leases
\* An IPv4 address or mask is its four octets, first octet first; a MAC
\* address is its six bytes.
BaseLease ==
    [addr |-> <<192, 168, 1, 50>>, mask |-> <<255, 255, 255, 0>>,
     has_router |-> TRUE, router |-> <<10, 0, 0, 1>>,
     dns |-> << <<8, 8, 8, 8>> >>, mac |-> <<171, 12, 239, 1, 2, 3>>]

\* what the engine's query functions read when no lease is held
NoLease ==
    [addr |-> <<0, 0, 0, 0>>, mask |-> <<0, 0, 0, 0>>,
     has_router |-> FALSE, router |-> <<0, 0, 0, 0>>,
     dns |-> <<>>, mac |-> <<0, 0, 0, 0, 0, 0>>]

LeaseAddrs == {<<192, 168, 1, 50>>, <<10, 0, 0, 7>>}
LeaseMasks == {<<255, 255, 255, 0>>, <<255, 0, 255, 0>>, <<0, 0, 0, 0>>,
               <<255, 255, 255, 255>>, <<255, 255, 240, 0>>, <<255, 255, 255, 1>>,
               <<0, 255, 0, 0>>, <<255, 254, 0, 0>>, <<127, 0, 0, 0>>,
               <<255, 255, 255, 252>>, <<255, 255, 0, 255>>, <<128, 0, 0, 0>>}
LeaseRouters == {<<10, 0, 0, 1>>, <<0, 0, 0, 0>>}
LeaseDnsAddrs == {<<8, 8, 8, 8>>, <<10, 0, 0, 1>>}
LeaseMacs == {<<171, 12, 239, 1, 2, 3>>, <<0, 255, 16, 9, 160, 10>>}

Leases ==
    {[BaseLease EXCEPT !.addr = a, !.mask = m] : a \in LeaseAddrs, m \in LeaseMasks}
    \cup {[BaseLease EXCEPT !.has_router = h, !.router = r] : h \in BOOLEAN, r \in LeaseRouters}
    \cup {[BaseLease EXCEPT !.dns = d] : d \in SeqsUpTo(LeaseDnsAddrs, MaxDns)}
    \cup {[BaseLease EXCEPT !.mac = m] : m \in LeaseMacs}

\* ---------------------------------------------------------------- state
VARIABLES
    args,      \* params->args, the positional arguments
    pc,        \* "new" | "scan" | "running" | "dead" | "abort"
    opts_arg,  \* func_new local
    count,     \* func_new local
    j,         \* func_new local: loop index (0-based)
    opts,      \* struct BDHCPClient_opts
    up,        \* o->up
    dhcp,      \* o->dhcp: "uninit" | "live" | "freed"
    lease,     \* the DHCP client holds a lease (engine side)
    log,       \* last message given to ModuleLog
    oob,       \* NCDVal_ListGet was called with pos >= count
    trace,
    offers,    \* the leases the DHCP server may grant
    snap,      \* the lease snapshot the engine's query functions read
    q          \* the last func_getvar call since the last callback: name, return value, *out

vars == <<args, pc, opts_arg, count, j, opts, up, dhcp, lease, log, oob, trace,
          offers, snap, q>>

EvNames == {"EV_UP", "EV_DOWN", "EV_ERROR"}
HostSignalNames == {"up", "down", "error", "dead"}

Count(seq, x) == Cardinality({k \in DOMAIN seq : seq[k] = x})
IsEv(x) == x \in EvNames
IsHostSignal(x) == x \in HostSignalNames
HostSignals == SelectSeq(trace, IsHostSignal)
NumEvents == Len(SelectSeq(trace, IsEv))
InitCalls == Count(trace, "init_ok") + Count(trace, "init_fail")

\* *out: a string value, a list of strings, an invalid value, or not written
StringOut(str) == [kind |-> "string", s |-> str, l |-> <<>>]
ListOut(strs) == [kind |-> "list", s |-> "", l |-> strs]
InvalidOut == [kind |-> "invalid", s |-> "", l |-> <<>>]
UnsetOut == [kind |-> "unset", s |-> "", l |-> <<>>]

NoQuery == [name |-> "", ret |-> 0, out |-> UnsetOut]

NoOpts == [hostname |-> "NULL", vendorclassid |-> "NULL", auto_clientid |-> 0]

Init ==
    /\ args \in ArgLists
    /\ pc = "new"
    /\ opts_arg = NCDVal_NewInvalid
    /\ count = 0
    /\ j = 0
    /\ opts = NoOpts
    /\ up \in {0, 1}          \* instance memory is not initialized by the host
    /\ dhcp = "uninit"
    /\ lease = FALSE
    /\ log = ""
    /\ oob = FALSE
    /\ trace = <<>>
    /\ offers = {BaseLease}
    /\ snap = NoLease
    /\ q = NoQuery

\* constructions that start the engine (or try to), every lease of Leases
VarsArgLists ==
    {<<Str("eth0")>>,
     <<Str("eth0"), List(<<Str("auto_clientid"), Str("hostname"), Str("myhost")>>)>>}

InitVars ==
    /\ args \in VarsArgLists
    /\ pc = "new"
    /\ opts_arg = NCDVal_NewInvalid
    /\ count = 0
    /\ j = 0
    /\ opts = NoOpts
    /\ up \in {0, 1}
    /\ dhcp = "uninit"
    /\ lease = FALSE
    /\ log = ""
    /\ oob = FALSE
    /\ trace = <<>>
    /\ offers = Leases
    /\ snap = NoLease
    /\ q = NoQuery

\* ---------------------------------------------------------------- func_new
Fail0Calls_WithFree == <<"error", "free", "dead">>
Fail0Calls_ErrorOnly == <<"error">>

\* fail0: NCDModuleInst_Backend_SetError(i); NCDModuleInst_Backend_Dead(i);
Fail0Calls == <<"error", "dead">>

Fail0(msg) ==
    /\ log' = msg
    /\ trace' = trace \o Fail0Calls
    /\ pc' = "dead"

ArityOK_AtLeastOne(a) == Len(a) >= 1

\* line 110
ArityOK(a) == NCDVal_ListRead(a, 1) \/ NCDVal_ListRead(a, 2)

TypesOK(ifname_arg, oa) ==
    ~(~NCDVal_IsStringNoNulls(ifname_arg) \/ (~NCDVal_IsInvalid(oa) /\ ~NCDVal_IsList(oa)))

\* lines 104-123: argument check up to the start of the option loop
FuncNewCheck ==
    /\ pc = "new"
    /\ IF ~ArityOK(args)
       THEN /\ Fail0("wrong arity")
            /\ UNCHANGED <<opts_arg, count, j, opts>>
       ELSE LET ifname_arg == args[1]
                oa == IF NCDVal_ListRead(args, 2) THEN args[2] ELSE NCDVal_NewInvalid
            IN IF ~TypesOK(ifname_arg, oa)
               THEN /\ Fail0("wrong type")
                    /\ UNCHANGED <<opts_arg, count, j, opts>>
               ELSE /\ opts_arg' = oa
                    /\ count' = IF NCDVal_IsInvalid(oa) THEN 0 ELSE NCDVal_ListCount(oa)
                    /\ j' = 0
                    /\ opts' = NoOpts
                    /\ pc' = "scan"
                    /\ UNCHANGED <<log, trace>>
    /\ UNCHANGED <<args, up, dhcp, lease, oob, offers, snap, q>>

\* line 134: !strcmp(optname, "hostname") || !strcmp(optname, "vendorclassid")
IsValueOption(optname) == optname = "hostname" \/ optname = "vendorclassid"

IsFlagOption_Any(optname) == TRUE

\* line 155: !strcmp(optname, "auto_clientid")
IsFlagOption(optname) == optname = "auto_clientid"

\* line 136: if (j == count)
ValueMissing(jj, cnt) == jj = cnt

SetOpt_KeepFirst(o, optname, optval) ==
    IF optname = "hostname"
    THEN (IF o.hostname = "NULL" THEN [o EXCEPT !.hostname = optval] ELSE o)
    ELSE (IF o.vendorclassid = "NULL" THEN [o EXCEPT !.vendorclassid = optval] ELSE o)

\* lines 147-151
SetOpt(o, optname, optval) ==
    IF optname = "hostname" THEN [o EXCEPT !.hostname = optval]
    ELSE [o EXCEPT !.vendorclassid = optval]

\* lines 140-153, once the value slot has been read as val
TakeValue(optname, val) ==
    IF ~NCDVal_IsStringNoNulls(val)
    THEN /\ Fail0("wrong option value type")
         /\ UNCHANGED <<j, opts>>
    ELSE /\ opts' = SetOpt(opts, optname, val.s)
         /\ j' = (j + 1) + 1      \* j++ of line 153, then j++ of the for statement
         /\ UNCHANGED <<pc, log, trace>>

\* lines 124-162: one iteration of the option loop
ScanStep ==
    /\ pc = "scan"
    /\ j < count
    /\ LET opt == opts_arg.items[j + 1] IN
       IF ~NCDVal_IsStringNoNulls(opt)
       THEN /\ Fail0("wrong option name type")
            /\ UNCHANGED <<j, opts, oob>>
       ELSE LET optname == opt.s IN
            IF IsValueOption(optname)
            THEN IF ValueMissing(j, count)
                 THEN /\ Fail0("option value missing")
                      /\ UNCHANGED <<j, opts, oob>>
                 ELSE IF j + 1 < count
                      THEN /\ TakeValue(optname, opts_arg.items[j + 2])
                           /\ UNCHANGED oob
                      ELSE \* NCDVal_ListGet(opts_arg, count): out of bounds
                           /\ oob' = TRUE
                           /\ \E outcome \in OobOutcomes :
                                IF outcome = "abort"
                                THEN /\ pc' = "abort"
                                     /\ UNCHANGED <<j, opts, log, trace>>
                                ELSE TakeValue(optname, GarbageVal(outcome))
            ELSE IF IsFlagOption(optname)
                 THEN /\ opts' = [opts EXCEPT !.auto_clientid = 1]
                      /\ j' = j + 1
                      /\ UNCHANGED <<pc, log, trace, oob>>
                 ELSE /\ Fail0("unknown option name")
                      /\ UNCHANGED <<j, opts, oob>>
    /\ UNCHANGED <<args, opts_arg, count, up, dhcp, lease, offers, snap, q>>

SetNotUp_Skipped(u) == u

\* line 171: o->up = 0
SetNotUp(u) == 0

\* lines 164-172: BDHCPClient_Init and its two outcomes
InitDHCP ==
    /\ pc = "scan"
    /\ ~(j < count)
    /\ \E ok \in BOOLEAN :
         IF ok
         THEN /\ dhcp' = "live"
              /\ trace' = trace \o <<"init_ok">>
              /\ up' = SetNotUp(up)
              /\ pc' = "running"
              /\ UNCHANGED log
         ELSE /\ log' = "BDHCPClient_Init failed"
              /\ trace' = trace \o <<"init_fail">> \o Fail0Calls
              /\ pc' = "dead"
              /\ UNCHANGED <<dhcp, up>>
    /\ UNCHANGED <<args, opts_arg, count, j, opts, lease, oob, offers, snap, q>>

\* ---------------------------------------------------------------- teardown
InstanceFreeCalls_DeadFirst == <<"dead", "free">>

\* instance_free: BDHCPClient_Free(&o->dhcp); NCDModuleInst_Backend_Dead(o->i);
InstanceFreeCalls == <<"free", "dead">>

InstanceFreeDhcp_Leak(d) == d

\* line 182: BDHCPClient_Free(&o->dhcp)
InstanceFreeDhcp(d) == IF d = "live" THEN "freed" ELSE "corrupt"

\* ---------------------------------------------------------------- dhcp_handler
\* The DHCP client calls its handler only between BDHCPClient_Init and
\* BDHCPClient_Free, UP only without a lease and DOWN only with one.
EngineMayEmit(event) ==
    /\ dhcp = "live"
    /\ pc # "abort"
    /\ NumEvents < MaxEvents
    /\ (event = "EV_UP" => ~lease)
    /\ (event = "EV_DOWN" => lease)

\* A DHCP client that breaks that contract: UP although it already reported
\* one, DOWN although it holds no lease.
EngineMisbehaves(event) ==
    /\ dhcp = "live"
    /\ pc # "abort"
    /\ NumEvents < MaxEvents
    /\ (event = "EV_UP" => lease)
    /\ (event = "EV_DOWN" => ~lease)

\* line 82: o->up = 1
UpAfterUp(u) == 1

UpAfterDown_Kept(u) == u

\* line 88: o->up = 0
UpAfterDown(u) == 0

AssertNotUpFails_Never(u) == FALSE

\* line 81: ASSERT(!o->up)
AssertNotUpFails(u) == u # 0

\* line 87: ASSERT(o->up)
AssertUpFails(u) == u = 0

\* lines 80-84
DhcpHandlerUp ==
    /\ IF AssertNotUpFails(up)
       THEN /\ pc' = "abort"
            /\ trace' = trace \o <<"EV_UP">>
            /\ UNCHANGED up
       ELSE /\ up' = UpAfterUp(up)
            /\ trace' = trace \o <<"EV_UP", "up">>
            /\ UNCHANGED pc
    /\ q' = NoQuery
    /\ UNCHANGED <<args, opts_arg, count, j, opts, dhcp, log, oob, offers>>

\* lines 86-90
DhcpHandlerDown ==
    /\ IF AssertUpFails(up)
       THEN /\ pc' = "abort"
            /\ trace' = trace \o <<"EV_DOWN">>
            /\ UNCHANGED up
       ELSE /\ up' = UpAfterDown(up)
            /\ trace' = trace \o <<"EV_DOWN", "down">>
            /\ UNCHANGED pc
    /\ q' = NoQuery
    /\ UNCHANGED <<args, opts_arg, count, j, opts, dhcp, log, oob, offers>>

HandlerUp ==
    /\ EngineMayEmit("EV_UP")
    /\ lease' = TRUE
    /\ \E s \in offers : snap' = s
    /\ DhcpHandlerUp

HandlerDown ==
    /\ EngineMayEmit("EV_DOWN")
    /\ lease' = FALSE
    /\ snap' = NoLease
    /\ DhcpHandlerDown

RogueUp ==
    /\ EngineMisbehaves("EV_UP")
    /\ UNCHANGED <<lease, snap>>
    /\ DhcpHandlerUp

RogueDown ==
    /\ EngineMisbehaves("EV_DOWN")
    /\ UNCHANGED <<lease, snap>>
    /\ DhcpHandlerDown

HandlerErrorCalls_NoSetError == InstanceFreeCalls
HandlerErrorCalls_FreeTwice == <<"error", "free">> \o InstanceFreeCalls
HandlerErrorCalls_DownFirst == <<"down", "error">> \o InstanceFreeCalls

\* lines 92-96
HandlerErrorCalls == <<"error">> \o InstanceFreeCalls

HandlerError ==
    /\ EngineMayEmit("EV_ERROR")
    /\ trace' = trace \o <<"EV_ERROR">> \o HandlerErrorCalls
    /\ dhcp' = InstanceFreeDhcp(dhcp)
    /\ pc' = IF "dead" \in {HandlerErrorCalls[k] : k \in DOMAIN HandlerErrorCalls}
             THEN "dead" ELSE pc
    /\ q' = NoQuery
    /\ UNCHANGED <<args, opts_arg, count, j, opts, up, lease, log, oob, offers, snap>>

\* ---------------------------------------------------------------- func_die
\* The host requests destruction of an instance that it has not seen die.
FuncDie ==
    /\ pc = "running"
    /\ trace' = trace \o <<"DIE">> \o InstanceFreeCalls
    /\ dhcp' = InstanceFreeDhcp(dhcp)
    /\ pc' = "dead"
    /\ q' = NoQuery
    /\ UNCHANGED <<args, opts_arg, count, j, opts, up, lease, log, oob, offers, snap>>

\* ---------------------------------------------------------------- func_getvar
\* The host offers variable access only on an instance it sees as up: the
\* last report it received is "up".
HostOffersVars ==
    /\ HostSignals # <<>>
    /\ HostSignals[Len(HostSignals)] = "up"

\* dotted-quad form of an address
ipaddr_print_addr(a) ==
    ToString(a[1]) \o "." \o ToString(a[2]) \o "." \o ToString(a[3]) \o "." \o ToString(a[4])

\* the octet whose n leading bits are one and whose other bits are zero
PrefixOctet(n) == 256 - 2 ^ (8 - n)

OctetBits(i, k) ==
    IF i - 8 * (k - 1) < 0 THEN 0
    ELSE IF i - 8 * (k - 1) > 8 THEN 8
    ELSE i - 8 * (k - 1)

\* the mask of prefix length i
PrefixMask(i) == [k \in 1..4 |-> PrefixOctet(OctetBits(i, k))]
PrefixMasks == [i \in 0..32 |-> PrefixMask(i)]

\* ipaddr_ipv4_ifaddr_from_addr_mask succeeds when the mask is the mask of
\* some prefix length 0..32, and then gives that length
MaskIsPrefix(mask) == \E i \in 0..32 : PrefixMasks[i] = mask
PrefixOfMask(mask) == CHOOSE i \in 0..32 : PrefixMasks[i] = mask

\* "A.B.C.D/N"
ipaddr_print_ifaddr(addr, prefix) == ipaddr_print_addr(addr) \o "/" \o ToString(prefix)

HexDigits == <<"0", "1", "2", "3", "4", "5", "6", "7", "8", "9", "A", "B", "C", "D", "E", "F">>

\* "%02X"
HexByte(b) == HexDigits[(b \div 16) + 1] \o HexDigits[(b % 16) + 1]

\* line 305
PrintMac(m) ==
    HexByte(m[1]) \o ":" \o HexByte(m[2]) \o ":" \o HexByte(m[3]) \o ":" \o
    HexByte(m[4]) \o ":" \o HexByte(m[5]) \o ":" \o HexByte(m[6])

\* NCDVal_NewString(mem, str): the string value, or an invalid value when
\* memory for it cannot be had
NCDVal_NewString(str, alloc_ok) == IF alloc_ok THEN StringOut(str) ELSE InvalidOut

GetvarNames == {"addr", "prefix", "cidr_addr", "gateway", "dns_servers", "server_mac", "other"}

\* lines 199-211
GetvarAddr(s, alloc_ok) ==
    [ret |-> 1, out |-> NCDVal_NewString(ipaddr_print_addr(s.addr), alloc_ok)]

\* lines 213-233
GetvarPrefix(s, alloc_ok) ==
    IF ~MaskIsPrefix(s.mask)
    THEN [ret |-> 0, out |-> UnsetOut]
    ELSE [ret |-> 1, out |-> NCDVal_NewString(ToString(PrefixOfMask(s.mask)), alloc_ok)]

GetvarCidrAddr_AddrOnly(s, alloc_ok) ==
    IF ~MaskIsPrefix(s.mask)
    THEN [ret |-> 0, out |-> UnsetOut]
    ELSE [ret |-> 1, out |-> NCDVal_NewString(ipaddr_print_addr(s.addr), alloc_ok)]

\* lines 235-255
GetvarCidrAddr(s, alloc_ok) ==
    IF ~MaskIsPrefix(s.mask)
    THEN [ret |-> 0, out |-> UnsetOut]
    ELSE [ret |-> 1,
          out |-> NCDVal_NewString(ipaddr_print_ifaddr(s.addr, PrefixOfMask(s.mask)), alloc_ok)]

GetvarGateway_ZeroIsNone(s, alloc_ok) ==
    [ret |-> 1,
     out |-> NCDVal_NewString(IF s.router = <<0, 0, 0, 0>> THEN "none"
                              ELSE ipaddr_print_addr(s.router), alloc_ok)]

\* lines 257-272
GetvarGateway(s, alloc_ok) ==
    [ret |-> 1,
     out |-> NCDVal_NewString(IF ~s.has_router THEN "none"
                              ELSE ipaddr_print_addr(s.router), alloc_ok)]

\* lines 274-298 and 317-319
GetvarDnsServers(s, alloc_ok) ==
    [ret |-> 1,
     out |-> IF alloc_ok
             THEN ListOut([i \in 1..Len(s.dns) |-> ipaddr_print_addr(s.dns[i])])
             ELSE InvalidOut]

\* lines 300-313
GetvarServerMac(s, alloc_ok) ==
    [ret |-> 1, out |-> NCDVal_NewString(PrintMac(s.mac), alloc_ok)]

\* lines 199-315: the strcmp chain
Getvar(name, s, alloc_ok) ==
    IF name = "addr" THEN GetvarAddr(s, alloc_ok)
    ELSE IF name = "prefix" THEN GetvarPrefix(s, alloc_ok)
    ELSE IF name = "cidr_addr" THEN GetvarCidrAddr(s, alloc_ok)
    ELSE IF name = "gateway" THEN GetvarGateway(s, alloc_ok)
    ELSE IF name = "dns_servers" THEN GetvarDnsServers(s, alloc_ok)
    ELSE IF name = "server_mac" THEN GetvarServerMac(s, alloc_ok)
    ELSE [ret |-> 0, out |-> UnsetOut]

\* what the call logs, if anything
GetvarLog(r, old) ==
    IF r.ret = 0 /\ r.out = UnsetOut THEN old
    ELSE IF r.out = InvalidOut THEN "NCDVal_NewString failed"
    ELSE old

BadMaskCalls_Fatal == <<"error", "free", "dead">>

\* lines 220-223 and 242-245: ModuleLog and return 0, no call to the host or
\* to the DHCP client
BadMaskCalls == <<>>

SnapAfterGetvar_DropDns(s) == [s EXCEPT !.dns = IF s.dns = <<>> THEN <<>> ELSE Tail(s.dns)]

\* func_getvar only reads o->dhcp
SnapAfterGetvar(s) == s

GetvarBadMask(name, s) == name \in {"prefix", "cidr_addr"} /\ ~MaskIsPrefix(s.mask)

\* lines 194-320
FuncGetvar ==
    /\ pc = "running"
    /\ HostOffersVars
    /\ \E name \in GetvarNames, alloc_ok \in BOOLEAN :
         IF AssertUpFails(up)       \* line 197: ASSERT(o->up)
         THEN /\ pc' = "abort"
              /\ UNCHANGED <<q, log, trace, snap>>
         ELSE LET r == Getvar(name, snap, alloc_ok) IN
              /\ q' = [name |-> name, ret |-> r.ret, out |-> r.out]
              /\ log' = IF GetvarBadMask(name, snap) THEN "bad netmask" ELSE GetvarLog(r, log)
              /\ trace' = trace \o (IF GetvarBadMask(name, snap) THEN BadMaskCalls ELSE <<>>)
              /\ snap' = SnapAfterGetvar(snap)
              /\ UNCHANGED pc
    /\ UNCHANGED <<args, opts_arg, count, j, opts, up, dhcp, lease, oob, offers>>

Next ==
    \/ FuncNewCheck
    \/ ScanStep
    \/ InitDHCP
    \/ HandlerUp
    \/ HandlerDown
    \/ HandlerError
    \/ FuncDie
    \/ FuncGetvar

Spec == Init /\ [][Next]_vars

\* every lease of Leases, a few constructions
SpecVars == InitVars /\ [][Next]_vars

\* a DHCP client that may break its event contract
NextRogue ==
    \/ Next
    \/ RogueUp
    \/ RogueDown

SpecRogue == Init /\ [][NextRogue]_vars

\* ================================================================ properties
After(k) == SubSeq(trace, k + 1, Len(trace))
IsUpDown(x) == x \in {"up", "down"}
UpDownReports == SelectSeq(trace, IsUpDown)
ConstructionOver == pc \notin {"new", "scan"}

\* ---------------------------------------------------------------- reference
\* The option scan as section 4.1 of the specification words it, from 1-based
\* position k: the position at which it stops with a failure, 0 when it
\* reaches the end of the list.
RECURSIVE RefStop(_, _)
RefStop(xs, k) ==
    IF k > Len(xs) THEN 0
    ELSE IF ~NCDVal_IsStringNoNulls(xs[k]) THEN k
    ELSE IF xs[k].s \in {"hostname", "vendorclassid"}
         THEN IF k + 1 > Len(xs) THEN k
              ELSE IF ~NCDVal_IsStringNoNulls(xs[k + 1]) THEN k
              ELSE RefStop(xs, k + 2)
    ELSE IF xs[k].s = "auto_clientid" THEN RefStop(xs, k + 1)
    ELSE k

RefArgsValid ==
    /\ Len(args) \in {1, 2}
    /\ NCDVal_IsStringNoNulls(args[1])
    /\ Len(args) = 2 => NCDVal_IsList(args[2])

RefOptItems == IF Len(args) = 2 THEN args[2].items ELSE <<>>

RefParseFails == ~RefArgsValid \/ RefStop(RefOptItems, 1) # 0

\* the scan stops at a hostname in option-name position whose value is
\* missing or is not a string
RefHostnameLacksValue ==
    /\ RefArgsValid
    /\ LET p == RefStop(RefOptItems, 1) IN
         /\ p # 0
         /\ RefOptItems[p] = Str("hostname")

\* the scan stops at an unrecognized token in option-name position
RefStopsAtUnknown ==
    /\ RefArgsValid
    /\ LET p == RefStop(RefOptItems, 1) IN
         /\ p # 0
         /\ NCDVal_IsStringNoNulls(RefOptItems[p])
         /\ RefOptItems[p].s \notin {"hostname", "vendorclassid", "auto_clientid"}

\* every entry of the list is a nul-free string and one of them, anywhere,
\* is an unrecognized token
RefContainsUnknown ==
    /\ RefArgsValid
    /\ \A k \in DOMAIN RefOptItems : NCDVal_IsStringNoNulls(RefOptItems[k])
    /\ \E k \in DOMAIN RefOptItems :
         /\ NCDVal_IsStringNoNulls(RefOptItems[k])
         /\ RefOptItems[k].s \notin {"hostname", "vendorclassid", "auto_clientid"}

\* ---------------------------------------------------------------- C1
\* C1: an engine ERROR event handled in NotUp or Up makes the instance report
\* exactly one error and then exactly one dead to the host (these are the only
\* error and dead reports of the instance), leaves the instance dead, and the
\* host offers no variable access afterwards.
C1_ErrorEventReportsErrorThenDead ==
    \A k \in DOMAIN trace :
        trace[k] = "EV_ERROR" =>
            /\ SelectSeq(After(k), IsHostSignal) = <<"error", "dead">>
            /\ Count(trace, "error") = 1
            /\ Count(trace, "dead") = 1
            /\ pc = "dead"
            /\ ~HostOffersVars

\* an ERROR event was handled while the instance was up
C1_Witness ==
    \E k \in DOMAIN trace :
        /\ k > 1
        /\ trace[k] = "EV_ERROR"
        /\ trace[k - 1] = "up"
        /\ up = 1
        /\ pc = "dead"

\* ---------------------------------------------------------------- C2
\* C2: a destruction request (func_die) in NotUp or Up calls BDHCPClient_Free
\* and only then reports dead to the host, does nothing else, leaves the
\* handle released, and no engine event is handled after any release.
C2_DieFreesBeforeDead ==
    /\ \A k \in DOMAIN trace :
         trace[k] = "DIE" =>
            /\ After(k) = <<"free", "dead">>
            /\ dhcp = "freed"
            /\ pc = "dead"
    /\ \A k, l \in DOMAIN trace :
         (k < l /\ trace[k] = "free") => trace[l] \notin EvNames

\* func_die was handled while the instance was up
C2_Witness ==
    \E k \in DOMAIN trace :
        /\ k > 1
        /\ trace[k] = "DIE"
        /\ trace[k - 1] = "up"
        /\ dhcp = "freed"

\* ---------------------------------------------------------------- C3
\* C3: when the scan reaches a hostname option whose value is missing (end of
\* list) or not a string, construction ends with "option value missing" or
\* "wrong option value type", error then dead reported, the engine never
\* started, and no list slot past the end was ever read.
C3_HostnameWithoutValueFails ==
    RefHostnameLacksValue =>
        /\ ~oob
        /\ ConstructionOver =>
              /\ pc = "dead"
              /\ trace = <<"error", "dead">>
              /\ log \in {"option value missing", "wrong option value type"}

\* ---------------------------------------------------------------- C4
\* C4: after a construction with the interface name as only argument,
\* BDHCPClient_Init was called exactly once and before anything else; when it
\* succeeded, then until an UP event is handled the instance has reported
\* nothing to the host and, while it lives, its up flag is 0.
C4_SingleArgStartsEngineAndStaysNotUp ==
    (Len(args) = 1 /\ NCDVal_IsStringNoNulls(args[1]) /\ ConstructionOver) =>
        /\ InitCalls = 1
        /\ trace[1] \in {"init_ok", "init_fail"}
        /\ (trace[1] = "init_ok" /\ Count(trace, "EV_UP") = 0) =>
              /\ Count(trace, "up") = 0
              /\ pc = "running" => (up = 0 /\ HostSignals = <<>> /\ dhcp = "live")

\* a single-argument construction succeeded and no event has been delivered
C4_Witness ==
    /\ Len(args) = 1
    /\ pc = "running"
    /\ trace = <<"init_ok">>
    /\ up = 0

\* ---------------------------------------------------------------- C5
\* C5: whenever the arguments or options are invalid (arity, types, option
\* name type, bad or missing option value, unknown option), construction ends
\* with error then dead reported and BDHCPClient_Init never called.
C5_ParseFailureReportsErrorDeadNoInit ==
    (RefParseFails /\ ConstructionOver) =>
        /\ pc = "dead"
        /\ trace = <<"error", "dead">>
        /\ InitCalls = 0

\* ---------------------------------------------------------------- C6
\* C6: when BDHCPClient_Init fails, the instance reports exactly one error
\* and then one dead, nothing else happens, the instance is dead without ever
\* having been NotUp, and BDHCPClient_Free is never called.
C6_InitFailureReportsErrorDeadNoFree ==
    Count(trace, "init_fail") > 0 =>
        /\ trace = <<"init_fail", "error", "dead">>
        /\ pc = "dead"
        /\ dhcp = "uninit"
        /\ log = "BDHCPClient_Init failed"

\* BDHCPClient_Init failed after a scan of a nonempty option list
C6_Witness ==
    /\ Count(trace, "init_fail") = 1
    /\ count > 0
    /\ pc = "dead"

\* ---------------------------------------------------------------- C7
\* C7: every UP event handled is followed by exactly one "up" report and
\* nothing else, every DOWN event by exactly one "down" report and nothing
\* else; up and down are reported only there; the up flag of a living
\* instance is 1 exactly after an "up" report; and the up/down reports
\* alternate, starting with "up".
C7_UpDownAlternate ==
    /\ \A k \in DOMAIN trace :
         /\ trace[k] = "EV_UP" =>
               /\ k < Len(trace)
               /\ trace[k + 1] = "up"
               /\ k + 1 < Len(trace) => trace[k + 2] \in EvNames \cup {"DIE"}
         /\ trace[k] = "EV_DOWN" =>
               /\ k < Len(trace)
               /\ trace[k + 1] = "down"
               /\ k + 1 < Len(trace) => trace[k + 2] \in EvNames \cup {"DIE"}
         /\ trace[k] = "up" => (k > 1 /\ trace[k - 1] = "EV_UP")
         /\ trace[k] = "down" => (k > 1 /\ trace[k - 1] = "EV_DOWN")
    /\ \A i \in DOMAIN UpDownReports :
         UpDownReports[i] = IF i % 2 = 1 THEN "up" ELSE "down"
    /\ pc = "running" =>
         /\ dhcp = "live"
         /\ up = IF UpDownReports # <<>> /\ UpDownReports[Len(UpDownReports)] = "up"
                 THEN 1 ELSE 0

\* up, down and up again have been reported and the instance lives
C7_Witness ==
    /\ UpDownReports = <<"up", "down", "up">>
    /\ pc = "running"
    /\ up = 1

\* ---------------------------------------------------------------- C8
\* C8 as stated, on option lists of nul-free strings: every option list that
\* contains an unrecognized token makes construction end with "unknown option name", error then dead
\* reported and the engine not started.
C8_Original_AnyUnknownTokenFails ==
    (RefContainsUnknown /\ ConstructionOver) =>
        /\ pc = "dead"
        /\ log = "unknown option name"
        /\ InitCalls = 0

\* C8 amended: every option list whose scan reaches an unrecognized token in
\* option-name position (not as the value of a preceding hostname or
\* vendorclassid, and with every earlier entry valid) makes construction end
\* with "unknown option name", error then dead reported and the engine not
\* started.
C8_UnknownOptionNameFails ==
    (RefStopsAtUnknown /\ ConstructionOver) =>
        /\ pc = "dead"
        /\ log = "unknown option name"
        /\ trace = <<"error", "dead">>
        /\ InitCalls = 0
        /\ ~oob

\* an unrecognized option name after a complete hostname option was refused
C8_Witness ==
    /\ RefStopsAtUnknown
    /\ RefStop(RefOptItems, 1) = 3
    /\ pc = "dead"
    /\ log = "unknown option name"

\* ---------------------------------------------------------------- C9
\* C9: an iteration of the scan that goes on to the next option advances the
\* index by exactly one for auto_clientid and by exactly two for hostname and
\* vendorclassid, and the index never exceeds the length of the list.
C9_ScanStep ==
    (pc = "scan" /\ pc' = "scan" /\ j' # j) =>
        /\ opts_arg.items[j + 1] = Str("auto_clientid") => j' = j + 1
        /\ opts_arg.items[j + 1] \in {Str("hostname"), Str("vendorclassid")} => j' = j + 2
        /\ j' <= count

C9_ScanConsumesSlotsWithinList == [][C9_ScanStep]_vars

\* ---------------------------------------------------------------- C10
\* C10: the arity check passes exactly for 1 or 2 arguments; with any other
\* number construction ends with "wrong arity", error then dead reported and
\* the engine not started.
C10_ArityOneOrTwo ==
    pc # "new" =>
        /\ Len(args) \notin {1, 2} =>
              /\ pc = "dead"
              /\ log = "wrong arity"
              /\ trace = <<"error", "dead">>
              /\ dhcp = "uninit"
        /\ Len(args) \in {1, 2} => log # "wrong arity"

\* a construction with three arguments was refused
C10_Witness ==
    /\ Len(args) = 3
    /\ pc = "dead"
    /\ log = "wrong arity"

\* ---------------------------------------------------------------- reference
\* bit n (1 = most significant) of a mask given as four octets
RefBit(mask, n) == (mask[((n - 1) \div 8) + 1] \div (2 ^ (7 - ((n - 1) % 8)))) % 2

\* no one-bit follows a zero-bit
RefContiguous(mask) == \A n \in 1..31 : RefBit(mask, n) = 0 => RefBit(mask, n + 1) = 0

\* the number of leading one-bits
RefLeadingOnes(mask) == Cardinality({n \in 1..32 : \A m \in 1..n : RefBit(mask, m) = 1})

\* the instance was up when trace entry k was made: the last up/down report
\* before it is "up"
UpBefore(k) ==
    LET r == SelectSeq(SubSeq(trace, 1, k - 1), IsUpDown)
    IN r # <<>> /\ r[Len(r)] = "up"

\* the option set section 4.1 describes for a valid list: entries read left to
\* right from 1-based position k, a later value replacing an earlier one
RECURSIVE RefOptsFrom(_, _, _)
RefOptsFrom(xs, k, acc) ==
    IF k > Len(xs) THEN acc
    ELSE IF xs[k].s = "hostname" THEN RefOptsFrom(xs, k + 2, [acc EXCEPT !.hostname = xs[k + 1].s])
    ELSE IF xs[k].s = "vendorclassid"
         THEN RefOptsFrom(xs, k + 2, [acc EXCEPT !.vendorclassid = xs[k + 1].s])
    ELSE RefOptsFrom(xs, k + 1, [acc EXCEPT !.auto_clientid = 1])

\* ---------------------------------------------------------------- C11
\* C11: after a prefix or cidr_addr query on a lease whose mask is not a
\* contiguous prefix mask, the query has returned 0 and written no value, and
\* nothing else has happened: the instance is still up and running, the
\* engine handle is live, and the last call the instance made to the host is
\* the "up" report of the lease.
C11_BadMaskQueryFailsLocally ==
    (q.name \in {"prefix", "cidr_addr"} /\ ~RefContiguous(snap.mask)) =>
        /\ q.ret = 0
        /\ q.out = UnsetOut
        /\ pc = "running"
        /\ up = 1
        /\ dhcp = "live"
        /\ trace[Len(trace)] = "up"

\* cidr_addr was queried on the mask 255.0.255.0
C11_Witness ==
    /\ q.name = "cidr_addr"
    /\ snap.mask = <<255, 0, 255, 0>>
    /\ q.ret = 0
    /\ log = "bad netmask"

\* ---------------------------------------------------------------- C12
\* C12: an instance whose construction succeeded has called BDHCPClient_Free
\* exactly once when it is dead and not at all while it lives, whichever way
\* it died, and no callback of the instance runs after the release.
C12_ReleasedExactlyOnce ==
    Count(trace, "init_ok") > 0 =>
        /\ pc \in {"running", "dead"}
        /\ pc = "dead" => (Count(trace, "free") = 1 /\ dhcp = "freed")
        /\ pc = "running" => (Count(trace, "free") = 0 /\ dhcp = "live")
        /\ \A k, l \in DOMAIN trace :
             (k < l /\ trace[k] = "free") => trace[l] \notin EvNames \cup {"DIE", "free"}

\* the lease was lost and the host destroyed the instance right after
C12_Witness ==
    /\ Len(trace) >= 5
    /\ SubSeq(trace, Len(trace) - 4, Len(trace)) = <<"EV_DOWN", "down", "DIE", "free", "dead">>
    /\ dhcp = "freed"

\* ---------------------------------------------------------------- C13
\* C13: a query in Up changes neither the up flag, the engine handle, the
\* lifecycle position, the lease snapshot nor the calls made to the host
\* and the engine; and a query of the same variable as the query before it,
\* with no event in between, returns the same value and the same return
\* code (values compared when both were allocated).
C13_QueryStep ==
    q'.name # "" =>
        /\ UNCHANGED <<up, dhcp, pc, lease, snap, trace>>
        /\ q.name = q'.name =>
              /\ q'.ret = q.ret
              /\ (q.out.kind # "invalid" /\ q'.out.kind # "invalid") => q'.out = q.out

C14_Inv ==
    /\ Count(HostSignals, "dead") <= 1
    /\ pc = "dead" <=> Count(HostSignals, "dead") = 1
    /\ \A k \in DOMAIN HostSignals :
         HostSignals[k] = "error" => (k < Len(HostSignals) /\ HostSignals[k + 1] = "dead")
    /\ \A k \in DOMAIN trace : trace[k] = "dead" => k = Len(trace)

C14_DeadIsTerminal == [][pc # "dead"]_vars /\ []C14_Inv

\* an instance that went up and down died of an engine error
C14_Witness ==
    /\ HostSignals = <<"up", "down", "error", "dead">>
    /\ pc = "dead"

\* ---------------------------------------------------------------- C15
\* C15: the value of a gateway query is "none" exactly when the lease has no
\* router, and otherwise the dotted-quad form of the router address: "0.0.0.0"
\* for a present router 0.0.0.0, "10.0.0.1" for 10.0.0.1.
C15_GatewayNoneIffNoRouter ==
    (q.name = "gateway") =>
        /\ q.ret = 1
        /\ q.out.kind = "string" =>
              /\ q.out.s = "none" <=> ~snap.has_router
              /\ snap.has_router => q.out.s = ipaddr_print_addr(snap.router)
              /\ (snap.has_router /\ snap.router = <<0, 0, 0, 0>>) => q.out.s = "0.0.0.0"
              /\ (snap.has_router /\ snap.router = <<10, 0, 0, 1>>) => q.out.s = "10.0.0.1"

\* gateway was queried on a lease whose router is 0.0.0.0
C15_Witness ==
    /\ q.name = "gateway"
    /\ snap.has_router
    /\ snap.router = <<0, 0, 0, 0>>
    /\ q.out = StringOut("0.0.0.0")

\* ---------------------------------------------------------------- C16
\* C16: on a lease whose mask is a contiguous prefix mask, a prefix query
\* yields the decimal count of leading one-bits of the mask and a cidr_addr
\* query yields the dotted-quad address, "/" and that count; for
\* 192.168.1.50 and 255.255.255.0 these are "192.168.1.50", "24" and
\* "192.168.1.50/24".
C16_PrefixAndCidr ==
    (RefContiguous(snap.mask) /\ q.out.kind = "string") =>
        /\ q.name = "prefix" =>
              /\ q.ret = 1
              /\ q.out.s = ToString(RefLeadingOnes(snap.mask))
        /\ q.name = "cidr_addr" =>
              /\ q.ret = 1
              /\ q.out.s = ipaddr_print_addr(snap.addr) \o "/" \o ToString(RefLeadingOnes(snap.mask))
        /\ (snap.addr = <<192, 168, 1, 50>> /\ snap.mask = <<255, 255, 255, 0>>) =>
              /\ q.name = "addr" => q.out.s = "192.168.1.50"
              /\ q.name = "prefix" => q.out.s = "24"
              /\ q.name = "cidr_addr" => q.out.s = "192.168.1.50/24"

\* cidr_addr was queried on 10.0.0.7 with mask 255.255.240.0
C16_Witness ==
    /\ q.name = "cidr_addr"
    /\ snap.addr = <<10, 0, 0, 7>>
    /\ snap.mask = <<255, 255, 240, 0>>
    /\ q.out = StringOut("10.0.0.7/20")

\* ---------------------------------------------------------------- C17
\* C17: an ERROR event handled while the instance is up is followed by the
\* error report, BDHCPClient_Free and the dead report and nothing else (no
\* down report); the instance is dead and its up flag is still 1.
C17_ErrorInUpGoesToDead ==
    \A k \in DOMAIN trace :
        (trace[k] = "EV_ERROR" /\ UpBefore(k)) =>
            /\ After(k) = <<"error", "free", "dead">>
            /\ pc = "dead"
            /\ up = 1
            /\ UpDownReports[Len(UpDownReports)] = "up"

\* the first lease was followed by an engine error
C17_Witness ==
    /\ HostSignals = <<"up", "error", "dead">>
    /\ Count(trace, "EV_ERROR") = 1
    /\ up = 1

\* ---------------------------------------------------------------- C18
\* C18: an UP event handled while the instance is up, or a DOWN event handled
\* while it is not, stops the program at the assertion: nothing is reported or
\* done for it or after it, and up and down reports never repeat.
C18_ContractViolationIsFatal ==
    /\ \A k \in DOMAIN trace :
         ((trace[k] = "EV_UP" /\ UpBefore(k)) \/ (trace[k] = "EV_DOWN" /\ ~UpBefore(k))) =>
            /\ k = Len(trace)
            /\ pc = "abort"
    /\ \A i \in DOMAIN UpDownReports :
         UpDownReports[i] = IF i % 2 = 1 THEN "up" ELSE "down"

\* the engine delivered UP to an instance that was already up
C18_Witness ==
    /\ pc = "abort"
    /\ Len(trace) > 0
    /\ trace[Len(trace)] = "EV_UP"
    /\ up = 1

\* ---------------------------------------------------------------- C19
\* C19: the engine handle is live exactly while the instance is running
\* (NotUp or Up): it is uninitialized before and during construction and
\* after a failed one, released after the death of a constructed instance;
\* BDHCPClient_Init succeeds at most once; and every query was made on a
\* live handle of an instance that is up.
C19_HandleLiveIffRunning ==
    /\ dhcp = "live" <=> pc = "running"
    /\ dhcp \in {"uninit", "live", "freed"}
    /\ pc \in {"new", "scan", "abort"} => dhcp = "uninit"
    /\ pc = "dead" => dhcp = IF Count(trace, "init_ok") > 0 THEN "freed" ELSE "uninit"
    /\ Count(trace, "init_ok") <= 1
    /\ q.name # "" => (dhcp = "live" /\ up = 1)

\* a variable is queried on the second lease of a living instance
C19_Witness ==
    /\ q.name = "addr"
    /\ dhcp = "live"
    /\ pc = "running"
    /\ Count(trace, "up") = 2

\* ---------------------------------------------------------------- C20
\* C20: for a valid option list the options handed to BDHCPClient_Init are
\* those of a left-to-right reading in which the entry after hostname or
\* vendorclassid is its value, whatever it spells, and a later value replaces
\* an earlier one; {"hostname", "auto_clientid"} gives hostname
\* "auto_clientid" with the flag unset, {"hostname", "myhost"} reaches
\* BDHCPClient_Init.
C20_ValueNeverReadAsName ==
    (RefArgsValid /\ RefStop(RefOptItems, 1) = 0 /\ ConstructionOver) =>
        /\ InitCalls = 1
        /\ trace[1] \in {"init_ok", "init_fail"}
        /\ ~oob
        /\ opts = RefOptsFrom(RefOptItems, 1, NoOpts)
        /\ RefOptItems = <<Str("hostname"), Str("auto_clientid")>> =>
              opts = [hostname |-> "auto_clientid", vendorclassid |-> "NULL", auto_clientid |-> 0]
        /\ RefOptItems = <<Str("hostname"), Str("myhost"), Str("hostname"), Str("auto_clientid")>> =>
              opts = [hostname |-> "auto_clientid", vendorclassid |-> "NULL", auto_clientid |-> 0]
        /\ RefOptItems = <<Str("vendorclassid"), Str("hostname"), Str("vendorclassid"), Str("myhost")>> =>
              opts = [hostname |-> "NULL", vendorclassid |-> "myhost", auto_clientid |-> 0]

\* hostname was given twice, the second time with the value "auto_clientid",
\* and the engine was started
C20_Witness ==
    /\ Len(args) = 2
    /\ args[2].items = <<Str("hostname"), Str("myhost"), Str("hostname"), Str("auto_clientid")>>
    /\ pc = "running"
    /\ opts.hostname = "auto_clientid"
    /\ opts.auto_clientid = 0

====
